---- MODULE Spec2Model ----
(***************************************************************************)
(* Model of the sales dashboard pipeline of src/dashboard_app.py:          *)
(* schema check, load and type normalisation, inclusive date filter, KPI   *)
(* aggregation, chart groupings and the control flow of main().            *)
(*                                                                         *)
(* Representation.                                                         *)
(*  - A text value is a sequence of one-character strings, so that         *)
(*    str.strip() is computed and not assumed.                             *)
(*  - A cell is a record [tag, v, s]: tag "val" (a value), "na" (the       *)
(*    missing marker: NaN / NaT / <NA>) or "bad" (raw text that does not   *)
(*    parse as a number or a date).  v holds numbers and timestamps, s     *)
(*    holds text.                                                          *)
(*  - Money is fixed point: an amount v stands for v / Scale.              *)
(*  - A timestamp is a tick count, TicksPerDay ticks to a calendar day.    *)
(*  - A DataFrame is [columns, rows]; every row carries its index label    *)
(*    idx (the RangeIndex read_csv assigns), which .loc[mask] preserves.   *)
(***************************************************************************)
EXTENDS Integers, Sequences, FiniteSets, TLC

VARIABLES
    src,      \* the CSV file at DATA_PATH: [state, cols, rows]
    pc,       \* position of the running script / API session
    cache,    \* st.cache_data entry of load_data: [full, df]
    df,       \* the table bound to df in the caller
    picked,   \* value returned by st.sidebar.date_input
    dr,       \* DateRange handed to apply_date_filter
    fdf,      \* result of apply_date_filter
    kpi,      \* result of compute_kpis
    fig_bar,  \* result of chart_category_revenue
    fig_line, \* result of chart_daily_revenue
    chk,      \* result of _check_required_columns
    err,      \* the exception text shown by st.error
    ui,       \* widgets and messages emitted in the current run
    preview,  \* frame handed to st.dataframe
    csv       \* payload handed to st.download_button

vars == <<src, pc, cache, df, picked, dr, fdf, kpi, fig_bar, fig_line, chk, err,
          ui, preview, csv>>

(***************************************************************************)
(* Bounds of the model.                                                    *)
(***************************************************************************)
MaxRows == 3           \* rows of a source table of the filter and of main
AggRows == 2           \* rows of a source table of the aggregation scenarios
LoadRows == 2          \* rows of a source table of the load scenarios
MaxDay == 3            \* calendar days are 1..MaxDay
TicksPerDay == 2       \* time-of-day resolution of a raw timestamp
Scale == 10            \* fixed-point denominator of money amounts
MaxExtra == 1          \* columns of the file beyond the required ones

(***************************************************************************)
(* Sequence helpers.                                                       *)
(***************************************************************************)
Range(s) == {s[i] : i \in 1..Len(s)}

Contains(s, x) == \E i \in 1..Len(s) : s[i] = x

Reverse(s) == [i \in 1..Len(s) |-> s[Len(s) + 1 - i]]

RECURSIVE SeqSum(_)
SeqSum(s) == IF s = <<>> THEN 0 ELSE Head(s) + SeqSum(Tail(s))

\* all sequences over S of length 0..n
SeqsUpTo(S, n) == UNION {[1..k -> S] : k \in 0..n}

(***************************************************************************)
(* Constants of the program.                                               *)
(***************************************************************************)
REQUIRED_COLUMNS ==
    <<"date", "category", "units", "unit_price", "region",
      "sales_channel", "customer_segment", "revenue">>

cat_cols == <<"category", "region", "sales_channel", "customer_segment">>

(***************************************************************************)
(* Cells.                                                                  *)
(***************************************************************************)
Num(n) == [tag |-> "val", v |-> n, s |-> <<>>]
Txt(t) == [tag |-> "val", v |-> 0, s |-> t]
NA     == [tag |-> "na",  v |-> 0, s |-> <<>>]
Bad    == [tag |-> "bad", v |-> 0, s |-> <<>>]

\* str(pd.NA), the text astype(str) puts in place of a missing string
NA_TEXT == <<"<", "N", "A", ">">>

\* midnight of calendar day d, as pd.Timestamp(date) builds it
Timestamp(d) == d * TicksPerDay

(***************************************************************************)
(* _check_required_columns: the required names that are not columns of     *)
(* the table, in REQUIRED_COLUMNS order.                                   *)
(***************************************************************************)
RequiredOrderMissingReversed(columns) ==
    Reverse(SelectSeq(REQUIRED_COLUMNS, LAMBDA c : ~Contains(columns, c)))

RequiredOrderMissing(columns) ==
    SelectSeq(REQUIRED_COLUMNS, LAMBDA c : ~Contains(columns, c))

_check_required_columns(columns) ==
    LET missing == RequiredOrderMissing(columns)
    IN  [ok |-> Len(missing) = 0, missing |-> missing]

(***************************************************************************)
(* Text: str.strip() and the ordering of str values.                       *)
(***************************************************************************)
RECURSIVE lstrip(_)
lstrip(t) == IF t # <<>> /\ Head(t) = " " THEN lstrip(Tail(t)) ELSE t

RECURSIVE rstrip(_)
rstrip(t) ==
    IF t # <<>> /\ t[Len(t)] = " " THEN rstrip(SubSeq(t, 1, Len(t) - 1)) ELSE t

strip(t) == rstrip(lstrip(t))

\* code point order of the characters that occur in the model
Alphabet == <<" ", "<", ">", "A", "B", "N">>

Ord(c) == CHOOSE i \in 1..Len(Alphabet) : Alphabet[i] = c

RECURSIVE TextLess(_, _)
TextLess(a, b) ==
    IF b = <<>> THEN FALSE
    ELSE IF a = <<>> THEN TRUE
    ELSE IF Head(a) # Head(b) THEN Ord(Head(a)) < Ord(Head(b))
    ELSE TextLess(Tail(a), Tail(b))

(***************************************************************************)
(* Files, frames, exceptions.                                              *)
(***************************************************************************)
EmptyFrame == [columns |-> <<>>, rows |-> <<>>]

NoMessage == [parts |-> {}, missing |-> <<>>, expected |-> <<>>, found |-> <<>>]

Returned(frame) == [ok |-> TRUE, exc |-> "none", msg |-> NoMessage, df |-> frame]

Raised(exc, msg) == [ok |-> FALSE, exc |-> exc, msg |-> msg, df |-> EmptyFrame]

Column(frame, col) == [i \in 1..Len(frame.rows) |-> frame.rows[i][col]]

(***************************************************************************)
(* pd.read_csv(path, parse_dates=["date"], dtype={...: "string"}).         *)
(* An absent file raises FileNotFoundError, an unreadable one another      *)
(* OSError.  A header without the parse_dates column raises ValueError     *)
(* ("Missing column provided to 'parse_dates': 'date'") before any frame   *)
(* exists.  Otherwise the rows are read in file order with index labels    *)
(* 0..n-1; a date column holding an unparseable cell is left as text.      *)
(***************************************************************************)
read_csv(file) ==
    IF file.state = "absent" THEN Raised("FileNotFoundError", NoMessage)
    ELSE IF file.state = "unreadable" THEN Raised("OSError", NoMessage)
    ELSE IF ~Contains(file.cols, "date")
    THEN Raised("ValueError", [NoMessage EXCEPT !.parts = {"missing"},
                                               !.missing = <<"date">>])
    ELSE Returned([columns |-> file.cols,
                   rows |-> [i \in 1..Len(file.rows) |->
                               [idx |-> i - 1] @@ file.rows[i]]])

(***************************************************************************)
(* The coercions of load_data.                                             *)
(***************************************************************************)
\* pd.to_numeric(errors="coerce") on one cell
to_numeric(c) == IF c.tag = "bad" THEN NA ELSE c

\* astype(str) on one cell of a "string" column: pd.NA becomes the text <NA>
\* (pandas before 3.0, where str is the object dtype)
astype_str(c) == IF c.tag = "na" THEN Txt(NA_TEXT) ELSE c

\* .str.strip() on one cell
str_strip(c) == IF c.tag = "val" THEN Txt(strip(c.s)) ELSE c

\* for c in cat_cols: df[c] = df[c].astype(str).str.strip()
RECURSIVE ApplyCategoricals(_, _)
ApplyCategoricals(frame, cols) ==
    IF cols = <<>> THEN frame
    ELSE ApplyCategoricals(
             [frame EXCEPT !.rows =
                 [i \in 1..Len(frame.rows) |->
                     [frame.rows[i] EXCEPT ![Head(cols)] = str_strip(astype_str(@))]]],
             Tail(cols))

_normalize_categoricals(frame) == ApplyCategoricals(frame, cat_cols)

\* .dt.normalize() on one cell: midnight of the same day
dt_normalize(c) == IF c.tag = "val" THEN Num(c.v - (c.v % TicksPerDay)) ELSE c

\* pd.to_datetime(series) with the default errors="raise"
to_datetime_raises(column) == \E i \in 1..Len(column) : column[i].tag = "bad"

\* for col in [...]: df[col] = pd.to_numeric(df[col], errors="coerce")
RECURSIVE CoerceNumeric(_, _)
CoerceNumeric(frame, cols) ==
    IF cols = <<>> THEN frame
    ELSE CoerceNumeric(
             [frame EXCEPT !.rows =
                 [i \in 1..Len(frame.rows) |->
                     [frame.rows[i] EXCEPT ![Head(cols)] = to_numeric(@)]]],
             Tail(cols))

\* df["date"] = pd.to_datetime(df["date"]).dt.tz_localize(None).dt.normalize()
\* once to_datetime has not raised; the parsed dates carry no time zone
NormalizeDates(frame) ==
    [frame EXCEPT !.rows =
        [i \in 1..Len(frame.rows) |->
            [frame.rows[i] EXCEPT !.date = dt_normalize(@)]]]

ValidationMessage(missing, columns) ==
    [parts |-> {"missing", "expected", "found"}, missing |-> missing,
     expected |-> REQUIRED_COLUMNS, found |-> columns]

load_data(file) ==
    LET r == read_csv(file)
    IN  IF ~r.ok THEN r
        ELSE LET c == _check_required_columns(r.df.columns)
             IN  IF ~c.ok
                 THEN Raised("ValueError", ValidationMessage(c.missing, r.df.columns))
                 ELSE LET n == CoerceNumeric(r.df, <<"units", "unit_price", "revenue">>)
                          k == _normalize_categoricals(n)
                      IN  IF to_datetime_raises(Column(k, "date"))
                          THEN Raised("ValueError", NoMessage)
                          ELSE Returned(NormalizeDates(k))

(***************************************************************************)
(* apply_date_filter: mask = (date >= start) & (date <= end); df.loc[mask] *)
(* copied.  A comparison with NaT on either side is False.  The operator   *)
(* returns the argument as the call leaves it together with the result.    *)
(***************************************************************************)
ts_ge(c, t) == c.tag = "val" /\ t.tag = "val" /\ c.v >= t.v

ts_le_exclusive(c, t) == c.tag = "val" /\ t.tag = "val" /\ c.v < t.v

ts_le(c, t) == c.tag = "val" /\ t.tag = "val" /\ c.v <= t.v

DateMask(frame, range) ==
    [i \in 1..Len(frame.rows) |->
        ts_ge(frame.rows[i].date, range.start) /\ ts_le(frame.rows[i].date, range.end)]

\* rows[mask], in row order
RECURSIVE loc(_, _)
loc(rows, mask) ==
    IF rows = <<>> THEN <<>>
    ELSE (IF Head(mask) THEN <<Head(rows)>> ELSE <<>>) \o loc(Tail(rows), Tail(mask))

apply_date_filter_inplace(frame, range) ==
    LET kept == [frame EXCEPT !.rows = loc(frame.rows, DateMask(frame, range))]
    IN  [df |-> kept, ret |-> kept]

apply_date_filter(frame, range) ==
    [df |-> frame,
     ret |-> [frame EXCEPT !.rows = loc(frame.rows, DateMask(frame, range))]]

DateRange(start, end) == [start |-> start, end |-> end]

(***************************************************************************)
(* compute_kpis.                                                           *)
(***************************************************************************)
dropna(column) == SelectSeq(column, LAMBDA c : c.tag # "na")

Values(column) == [i \in 1..Len(column) |-> column[i].v]

\* Series.sum() of a numeric column (NaN skipped, 0 when nothing is left)
series_sum(column) == SeqSum(Values(dropna(column)))

\* nunique() of a column (NA not counted)
nunique(column) == Cardinality({c.s : c \in Range(dropna(column))})

int_floor(amount) == amount \div Scale

\* int(x) of a money amount: truncation toward zero
int_money(amount) ==
    IF amount >= 0 THEN amount \div Scale ELSE -((-amount) \div Scale)

compute_kpis(frame) ==
    [total_revenue |-> int_money(series_sum(dropna(Column(frame, "revenue")))),
     total_units   |-> series_sum(dropna(Column(frame, "units"))),
     n_categories  |-> nunique(dropna(Column(frame, "category")))]

(***************************************************************************)
(* Chart groupings.                                                        *)
(***************************************************************************)
empty_never(frame) == FALSE

\* DataFrame.empty
empty(frame) == Len(frame.rows) = 0

\* order of group keys: by value, the missing key last
KeyLess(a, b) ==
    IF a.tag = "na" THEN FALSE
    ELSE IF b.tag = "na" THEN TRUE
    ELSE IF a.v # b.v THEN a.v < b.v
    ELSE TextLess(a.s, b.s)

RECURSIVE SortKeys(_)
SortKeys(K) ==
    IF K = {} THEN <<>>
    ELSE LET m == CHOOSE x \in K : \A y \in K \ {x} : KeyLess(x, y)
         IN  <<m>> \o SortKeys(K \ {m})

\* df.groupby(key, dropna=..., as_index=False)["revenue"].sum():
\* one entry per key in key order, NaN revenue skipped
groupby_revenue_sum(frame, key, drop_na) ==
    LET all  == Range(Column(frame, key))
        keys == SortKeys(IF drop_na THEN {k \in all : k.tag # "na"} ELSE all)
    IN  [i \in 1..Len(keys) |->
            [key |-> keys[i],
             revenue |-> series_sum(
                 Column([frame EXCEPT !.rows =
                            SelectSeq(frame.rows, LAMBDA r : r[key] = keys[i])],
                        "revenue"))]]

IndexOrders(n) ==
    {p \in [1..n -> 1..n] : \A i, j \in 1..n : i # j => p[i] # p[j]}

Reorder(g, p) == [i \in 1..Len(g) |-> g[p[i]]]

revenue_ascending(g) == \A i \in 1..(Len(g) - 1) : g[i].revenue <= g[i + 1].revenue

revenue_descending(g) == \A i \in 1..(Len(g) - 1) : g[i].revenue >= g[i + 1].revenue

\* sort_values("revenue", ascending=False) with the default kind="quicksort",
\* which is not stable: every descending arrangement is a possible outcome
sort_values_revenue_desc(g) ==
    {Reorder(g, p) : p \in {q \in IndexOrders(Len(g)) : revenue_descending(Reorder(g, q))}}

\* sort_values("date"): the keys are distinct, the order is determined
sort_values_date(g) ==
    LET p == CHOOSE q \in IndexOrders(Len(g)) :
                 \A i \in 1..(Len(g) - 1) : KeyLess(g[q[i]].key, g[q[i + 1]].key)
    IN  Reorder(g, p)

NoFigure == [kind |-> "None", data |-> <<>>]

Figure(kind, g) == [kind |-> kind, data |-> g]

\* the figures chart_category_revenue can return
chart_category_revenue(frame) ==
    IF empty(frame) THEN {NoFigure}
    ELSE {Figure("bar", g) :
            g \in sort_values_revenue_desc(groupby_revenue_sum(frame, "category", FALSE))}

chart_daily_revenue(frame) ==
    IF empty(frame) THEN NoFigure
    ELSE Figure("line", sort_values_date(groupby_revenue_sum(frame, "date", TRUE)))

(***************************************************************************)
(* Display helpers of main.                                                *)
(***************************************************************************)
PreviewLimit == 100

\* df.head(n)
head(frame, n) ==
    [frame EXCEPT !.rows = SubSeq(frame.rows, 1, IF Len(frame.rows) < n
                                                 THEN Len(frame.rows) ELSE n)]

\* yen(n): f"{n:,.0f}" rounds a money amount half-to-even; NaN prints as nan
yen(c) ==
    IF c.tag # "val" THEN c
    ELSE LET q == c.v \div Scale
             r == c.v % Scale
         IN  Num(IF 2 * r < Scale THEN q
                 ELSE IF 2 * r > Scale THEN q + 1
                 ELSE IF q % 2 = 0 THEN q ELSE q + 1)

RowLess(a, b) ==
    \/ KeyLess(a.date, b.date)
    \/ a.date = b.date /\ KeyLess(a.category, b.category)

RECURSIVE InsertRow(_, _)
InsertRow(x, rows) ==
    IF rows = <<>> THEN <<x>>
    ELSE IF RowLess(x, Head(rows)) THEN <<x>> \o rows
    ELSE <<Head(rows)>> \o InsertRow(x, Tail(rows))

\* sort_values(["date", "category"]): a stable sort
RECURSIVE SortRows(_)
SortRows(rows) ==
    IF rows = <<>> THEN <<>>
    ELSE InsertRow(rows[Len(rows)], SortRows(SubSeq(rows, 1, Len(rows) - 1)))

\* the frame of the filtered preview: a sorted copy with a fresh index and
\* the two formatted columns
preview_frame(frame) ==
    LET sorted == SortRows(frame.rows)
    IN  [columns |-> frame.columns \o <<"revenue_fmt", "unit_price_fmt">>,
         rows |-> [i \in 1..Len(sorted) |->
                     [revenue_fmt |-> yen(sorted[i].revenue),
                      unit_price_fmt |-> yen(sorted[i].unit_price)]
                     @@ [sorted[i] EXCEPT !.idx = i - 1]]]

\* to_csv(index=False): the columns and the rows without the index
to_csv(frame) ==
    [columns |-> frame.columns,
     rows |-> [i \in 1..Len(frame.rows) |->
                 [c \in DOMAIN frame.rows[i] \ {"idx"} |-> frame.rows[i][c]]]]

NoCsv == [columns |-> <<>>, rows |-> <<>>]

NoKpi == [total_revenue |-> -1, total_units |-> -1, n_categories |-> -1]

NotBuilt == [kind |-> "not built", data |-> <<>>]

NoRange == DateRange(NA, NA)

NoCheck == [ok |-> FALSE, missing |-> <<>>]

EmptyCache == [full |-> FALSE, df |-> EmptyFrame]

\* st.cache_data around load_data: a stored value is returned without a
\* new read; a raised exception is not stored
cached_load_data(file, entry) ==
    IF entry.full THEN Returned(entry.df) ELSE load_data(file)

(***************************************************************************)
(* Source files.                                                           *)
(***************************************************************************)
File(cols, rows) == [state |-> "ok", cols |-> cols, rows |-> rows]

AbsentFile == [state |-> "absent", cols |-> <<>>, rows |-> <<>>]

UnreadableFile == [state |-> "unreadable", cols |-> <<>>, rows |-> <<>>]

Day(d) == Num(Timestamp(d))

DateCells == {NA} \cup {Day(d) : d \in 1..MaxDay}

\* a well-formed row, its content varied with its position in the file
SampleRow(i, date) ==
    [date |-> date,
     category |-> Txt(IF i % 2 = 1 THEN <<"A">> ELSE <<"B", " ">>),
     units |-> Num(i),
     unit_price |-> Num(25),
     region |-> Txt(<<"N">>),
     sales_channel |-> Txt(<<" ", "B">>),
     customer_segment |-> Txt(<<"A", "A">>),
     revenue |-> Num(25 * i)]

DatedTables ==
    {[i \in 1..Len(ds) |-> SampleRow(i, ds[i])] : ds \in SeqsUpTo(DateCells, MaxRows)}

Without(cols, c) == SelectSeq(cols, LAMBDA x : x # c)

MainSources ==
    {AbsentFile, UnreadableFile,
     File(Without(REQUIRED_COLUMNS, "revenue"), <<>>),
     File(REQUIRED_COLUMNS, <<SampleRow(1, Bad)>>)}
    \cup {File(REQUIRED_COLUMNS, t) : t \in DatedTables}

ExtraNames == <<"memo", "note", "flag">>

\* the headers of the load scenarios: any subset of the required columns in
\* required order, followed by extra columns, or the same header reversed
\* (a file has at least one column)
Headers ==
    LET base == {SelectSeq(REQUIRED_COLUMNS, LAMBDA c : c \in P)
                    \o SubSeq(ExtraNames, 1, k) :
                 P \in SUBSET Range(REQUIRED_COLUMNS), k \in 0..MaxExtra}
        some == {h \in base : h # <<>>}
    IN  some \cup {Reverse(h) : h \in some}

\* a row of the load scenarios: one of the numeric cells may hold text
LoadRow(date, category, bad) ==
    [date |-> date,
     category |-> category,
     units |-> IF bad = "units" THEN Bad ELSE Num(2),
     unit_price |-> IF bad = "unit_price" THEN Bad ELSE Num(25),
     region |-> Txt(<<"N">>),
     sales_channel |-> Txt(<<" ", "B">>),
     customer_segment |-> NA,
     revenue |-> IF bad = "revenue" THEN Bad ELSE Num(50)]

LoadRowSet ==
    {LoadRow(d, c, b) :
        d \in {NA, Bad, Day(1), Num(Timestamp(1) + 1)},
        c \in {NA, Txt(<<" ", "A">>)},
        b \in {"none", "units", "unit_price", "revenue"}}

LoadSources ==
    {File(h, <<>>) : h \in Headers}
    \cup {File(REQUIRED_COLUMNS \o SubSeq(ExtraNames, 1, MaxExtra), t) :
            t \in SeqsUpTo(LoadRowSet, LoadRows)}

(***************************************************************************)
(* main(), one action per stage of the script.                             *)
(***************************************************************************)
\* lines 217-237: title, load_data under try/except, st.error and st.stop
MainLoad ==
    /\ pc = "start"
    /\ LET r == cached_load_data(src, cache)
       IN  IF r.ok
           THEN /\ df' = r.df
                /\ cache' = [full |-> TRUE, df |-> r.df]
                /\ ui' = {"title"}
                /\ err' = NoMessage
                /\ pc' = "loaded"
           ELSE /\ ui' = {"title",
                          IF r.exc = "FileNotFoundError" THEN "error_not_found"
                          ELSE IF r.exc = "ValueError" THEN "error_validation"
                          ELSE "error_unexpected"}
                /\ err' = IF r.exc = "ValueError" THEN r.msg ELSE NoMessage
                /\ pc' = "stopped"
                /\ UNCHANGED <<df, cache>>
    /\ UNCHANGED <<src, picked, dr, fdf, kpi, fig_bar, fig_line, chk, preview, csv>>

\* calendar days of the valid dates of the loaded table
ValidDays(frame) ==
    {c.v \div TicksPerDay : c \in Range(dropna(Column(frame, "date")))}

MinDay(frame) == CHOOSE d \in ValidDays(frame) : \A e \in ValidDays(frame) : d <= e

MaxDayOf(frame) == CHOOSE d \in ValidDays(frame) : \A e \in ValidDays(frame) : d >= e

\* lines 240-249: the widget returns a (start, end) pair inside
\* [min_date, max_date] with start <= end
MainDateInput ==
    /\ pc = "loaded"
    /\ ValidDays(df) # {}
    /\ \E s \in MinDay(df)..MaxDayOf(df) : \E e \in s..MaxDayOf(df) :
           picked' = <<Num(s), Num(e)>>
    /\ ui' = ui \cup {"date_input"}
    /\ pc' = "picked"
    /\ UNCHANGED <<src, cache, df, dr, fdf, kpi, fig_bar, fig_line, chk, err, preview, csv>>

\* lines 240-249: while the user has clicked only the first day of a range
\* the widget returns a one-element tuple
MainDateInputPartial ==
    /\ pc = "loaded"
    /\ ValidDays(df) # {}
    /\ \E s \in MinDay(df)..MaxDayOf(df) : picked' = <<Num(s)>>
    /\ ui' = ui \cup {"date_input"}
    /\ pc' = "picked"
    /\ UNCHANGED <<src, cache, df, dr, fdf, kpi, fig_bar, fig_line, chk, err, preview, csv>>

\* lines 240-249 on a table without any valid date: min and max are NaT and
\* the widget is handed NaT bounds; it either raises or hands them back
MainDateInputNaTRaises ==
    /\ pc = "loaded"
    /\ ValidDays(df) = {}
    /\ pc' = "crashed"
    /\ UNCHANGED <<src, cache, df, picked, dr, fdf, kpi, fig_bar, fig_line, chk, err,
                   ui, preview, csv>>

MainDateInputNaTReturns ==
    /\ pc = "loaded"
    /\ ValidDays(df) = {}
    /\ picked' = <<NA, NA>>
    /\ ui' = ui \cup {"date_input"}
    /\ pc' = "picked"
    /\ UNCHANGED <<src, cache, df, dr, fdf, kpi, fig_bar, fig_line, chk, err, preview, csv>>

\* pd.Timestamp(date)
to_timestamp(c) == IF c.tag = "val" THEN Day(c.v) ELSE NA

\* lines 252-261: a 2-tuple becomes the DateRange; anything else is passed
\* whole to pd.Timestamp, which raises TypeError on a tuple
MainBuildRange ==
    /\ pc = "picked"
    /\ IF Len(picked) = 2
       THEN /\ dr' = DateRange(to_timestamp(picked[1]), to_timestamp(picked[2]))
            /\ pc' = "ranged"
       ELSE /\ pc' = "crashed"
            /\ UNCHANGED dr
    /\ UNCHANGED <<src, cache, df, picked, fdf, kpi, fig_bar, fig_line, chk, err,
                   ui, preview, csv>>

\* line 264
MainFilter ==
    /\ pc = "ranged"
    /\ LET r == apply_date_filter(df, dr)
       IN  /\ df' = r.df
           /\ fdf' = r.ret
    /\ pc' = "filtered"
    /\ UNCHANGED <<src, cache, picked, dr, kpi, fig_bar, fig_line, chk, err, ui,
                   preview, csv>>

\* lines 267-279 with st.stop() left out
MainEmptyCheckNoStop ==
    /\ pc = "filtered"
    /\ IF empty(fdf)
       THEN /\ ui' = ui \cup {"warning_no_data", "original_preview", "original_download"}
            /\ preview' = head(df, PreviewLimit)
            /\ csv' = to_csv(df)
       ELSE UNCHANGED <<ui, preview, csv>>
    /\ pc' = "kpis"
    /\ UNCHANGED <<src, cache, df, picked, dr, fdf, kpi, fig_bar, fig_line, chk, err>>

\* lines 267-279: the zero-row branch warns, offers the loaded table and stops
MainEmptyCheck ==
    /\ pc = "filtered"
    /\ IF empty(fdf)
       THEN /\ ui' = ui \cup {"warning_no_data", "original_preview", "original_download"}
            /\ preview' = head(df, PreviewLimit)
            /\ csv' = to_csv(df)
            /\ pc' = "stopped"
       ELSE /\ pc' = "kpis"
            /\ UNCHANGED <<ui, preview, csv>>
    /\ UNCHANGED <<src, cache, df, picked, dr, fdf, kpi, fig_bar, fig_line, chk, err>>

\* lines 282-289
MainKpis ==
    /\ pc = "kpis"
    /\ kpi' = compute_kpis(fdf)
    /\ ui' = ui \cup {"kpi_metrics"}
    /\ pc' = "bar"
    /\ UNCHANGED <<src, cache, df, picked, dr, fdf, fig_bar, fig_line, chk, err,
                   preview, csv>>

\* lines 296-301
MainBarChart ==
    /\ pc = "bar"
    /\ \E fig \in chart_category_revenue(fdf) :
           /\ fig_bar' = fig
           /\ ui' = ui \cup {IF fig # NoFigure THEN "bar_chart" ELSE "bar_info"}
    /\ pc' = "line"
    /\ UNCHANGED <<src, cache, df, picked, dr, fdf, kpi, fig_line, chk, err, preview, csv>>

\* lines 303-308
MainLineChart ==
    /\ pc = "line"
    /\ fig_line' = chart_daily_revenue(fdf)
    /\ ui' = ui \cup {IF fig_line' # NoFigure THEN "line_chart" ELSE "line_info"}
    /\ pc' = "preview"
    /\ UNCHANGED <<src, cache, df, picked, dr, fdf, kpi, fig_bar, chk, err, preview, csv>>

\* lines 313-325
MainPreview ==
    /\ pc = "preview"
    /\ preview' = preview_frame(fdf)
    /\ ui' = ui \cup {"filtered_preview"}
    /\ pc' = "export"
    /\ UNCHANGED <<src, cache, df, picked, dr, fdf, kpi, fig_bar, fig_line, chk, err, csv>>

\* lines 327-342
MainExport ==
    /\ pc = "export"
    /\ csv' = to_csv(fdf)
    /\ ui' = ui \cup {"filtered_download", "quality_note"}
    /\ pc' = "done"
    /\ UNCHANGED <<src, cache, df, picked, dr, fdf, kpi, fig_bar, fig_line, chk, err,
                   preview>>

\* a user interaction reruns the script: its locals and its output are
\* gone, the st.cache_data entry stays
Rerun ==
    /\ pc \in {"done", "stopped", "crashed"}
    /\ pc' = "start"
    /\ df' = EmptyFrame
    /\ picked' = <<>>
    /\ dr' = NoRange
    /\ fdf' = EmptyFrame
    /\ kpi' = NoKpi
    /\ fig_bar' = NotBuilt
    /\ fig_line' = NotBuilt
    /\ preview' = EmptyFrame
    /\ csv' = NoCsv
    /\ err' = NoMessage
    /\ ui' = {}
    /\ UNCHANGED <<src, cache, chk>>

InitLocals ==
    /\ cache = EmptyCache
    /\ df = EmptyFrame
    /\ picked = <<>>
    /\ dr = NoRange
    /\ fdf = EmptyFrame
    /\ kpi = NoKpi
    /\ fig_bar = NotBuilt
    /\ fig_line = NotBuilt
    /\ chk = NoCheck
    /\ err = NoMessage
    /\ ui = {}
    /\ preview = EmptyFrame
    /\ csv = NoCsv

Init ==
    /\ src \in MainSources
    /\ pc = "start"
    /\ InitLocals

Next ==
    \/ MainLoad
    \/ MainDateInput
    \/ MainDateInputPartial
    \/ MainDateInputNaTRaises
    \/ MainDateInputNaTReturns
    \/ MainBuildRange
    \/ MainFilter
    \/ MainEmptyCheck
    \/ MainKpis
    \/ MainBarChart
    \/ MainLineChart
    \/ MainPreview
    \/ MainExport
    \/ Rerun

Spec == Init /\ [][Next]_vars

(***************************************************************************)
(* The load stage alone, on files with any header and with malformed       *)
(* cells, and _check_required_columns called on the frame of the file.     *)
(***************************************************************************)
CallCheckRequiredColumns ==
    /\ chk = NoCheck
    /\ chk' = _check_required_columns(src.cols)
    /\ UNCHANGED <<src, pc, cache, df, picked, dr, fdf, kpi, fig_bar, fig_line, err,
                   ui, preview, csv>>

InitLoad ==
    /\ src \in LoadSources
    /\ pc = "start"
    /\ InitLocals

NextLoad ==
    \/ MainLoad
    \/ CallCheckRequiredColumns

SpecLoad == InitLoad /\ [][NextLoad]_vars

(***************************************************************************)
(* Direct calls of the pipeline functions on loaded tables.                *)
(***************************************************************************)
\* apply_date_filter(df, DateRange(start, end)) for bounds among days
FilterCall(days) ==
    /\ pc \in {"api", "filtered"}
    /\ \E s \in days, e \in days :
           LET r == apply_date_filter(df, DateRange(Day(s), Day(e)))
           IN  /\ dr' = DateRange(Day(s), Day(e))
               /\ df' = r.df
               /\ fdf' = r.ret
    /\ pc' = "filtered"
    /\ UNCHANGED <<src, cache, picked, kpi, fig_bar, fig_line, chk, err, ui, preview, csv>>

CallFilter == FilterCall(0..(MaxDay + 1))

FilterSources == {File(REQUIRED_COLUMNS, t) : t \in DatedTables}

InitFilter ==
    /\ src \in FilterSources
    /\ pc = "api"
    /\ InitLocals

\* the session starts with df = load_data(path)
ApiLoad ==
    /\ pc = "api"
    /\ df = EmptyFrame
    /\ ~cache.full
    /\ LET r == cached_load_data(src, cache)
       IN  /\ r.ok
           /\ df' = r.df
           /\ cache' = [full |-> TRUE, df |-> r.df]
    /\ UNCHANGED <<src, pc, picked, dr, fdf, kpi, fig_bar, fig_line, chk, err, ui,
                   preview, csv>>

ApiFilter ==
    /\ cache.full
    /\ CallFilter

NextFilter ==
    \/ ApiLoad
    \/ ApiFilter

SpecFilter == InitFilter /\ [][NextFilter]_vars

\* a row of the aggregation scenarios
AggRow(date, category, revenue) ==
    [date |-> date,
     category |-> category,
     units |-> Num(3),
     unit_price |-> Num(25),
     region |-> Txt(<<"N">>),
     sales_channel |-> Txt(<<"B">>),
     customer_segment |-> Txt(<<"A">>),
     revenue |-> revenue]

AggRowSet ==
    {AggRow(d, c, v) :
        d \in {Day(1), Day(2)},
        c \in {NA, Txt(<<"A">>), Txt(<<" ", "B">>)},
        v \in {NA, Num(-7), Num(12)}}

AggSources == {File(REQUIRED_COLUMNS, t) : t \in SeqsUpTo(AggRowSet, AggRows)}

InitAgg ==
    /\ src \in AggSources
    /\ pc = "api"
    /\ InitLocals

AggFilter ==
    /\ cache.full
    /\ pc = "api"
    /\ FilterCall(1..2)

CallKpis ==
    /\ pc = "filtered"
    /\ kpi' = compute_kpis(fdf)
    /\ pc' = "kpis done"
    /\ UNCHANGED <<src, cache, df, picked, dr, fdf, fig_bar, fig_line, chk, err, ui,
                   preview, csv>>

CallBarChart ==
    /\ pc = "kpis done"
    /\ fig_bar' \in chart_category_revenue(fdf)
    /\ pc' = "bar done"
    /\ UNCHANGED <<src, cache, df, picked, dr, fdf, kpi, fig_line, chk, err, ui,
                   preview, csv>>

CallLineChart ==
    /\ pc = "bar done"
    /\ fig_line' = chart_daily_revenue(fdf)
    /\ pc' = "line done"
    /\ UNCHANGED <<src, cache, df, picked, dr, fdf, kpi, fig_bar, chk, err, ui,
                   preview, csv>>

NextAgg ==
    \/ ApiLoad
    \/ AggFilter
    \/ CallKpis
    \/ CallBarChart
    \/ CallLineChart

SpecAgg == InitAgg /\ [][NextAgg]_vars

(***************************************************************************)
(* Properties.                                                             *)
(***************************************************************************)
\* the i-th smallest element of a set of indices
Nth(I, k) == CHOOSE i \in I : Cardinality({j \in I : j <= i}) = k

\* C1: apply_date_filter(table, DateRange(start, end)) returns exactly the
\* rows of the table whose date is not missing and lies in [start, end],
\* both ends included, in their order in the table; with start > end the
\* result is empty.
C1_FilterInclusiveOrdered ==
    pc = "filtered" =>
        LET keep == {i \in 1..Len(df.rows) :
                        /\ df.rows[i].date.tag = "val"
                        /\ dr.start.v <= df.rows[i].date.v
                        /\ df.rows[i].date.v <= dr.end.v}
        IN  /\ fdf.columns = df.columns
            /\ Len(fdf.rows) = Cardinality(keep)
            /\ \A k \in 1..Len(fdf.rows) : fdf.rows[k] = df.rows[Nth(keep, k)]
            /\ (dr.start.v > dr.end.v => fdf.rows = <<>>)

\* C1 witness: one call with start < end keeps a row dated exactly start
\* and a row dated exactly end and drops a row that is one day early, one
\* day late or without a date.
C1_Witness ==
    /\ pc = "filtered"
    /\ dr.start.v < dr.end.v
    /\ \E i, j \in 1..Len(fdf.rows) :
           fdf.rows[i].date = dr.start /\ fdf.rows[j].date = dr.end
    /\ \E i \in 1..Len(df.rows) :
           df.rows[i].date.tag = "na" \/ df.rows[i].date.v = dr.end.v + TicksPerDay
                                      \/ df.rows[i].date.v = dr.start.v - TicksPerDay
    /\ Len(fdf.rows) < Len(df.rows)

\* the required columns absent from the header of the file
AbsentRequired == Range(REQUIRED_COLUMNS) \ Range(src.cols)

\* C2: whenever any required column is absent from the file (date
\* included), the load aborts with the schema-mismatch error whose message
\* names the expected columns, the columns found and the missing columns,
\* and no table is returned.
C2_SchemaMismatchMessage ==
    (pc # "start" /\ src.state = "ok" /\ AbsentRequired # {}) =>
        /\ pc = "stopped"
        /\ "error_validation" \in ui
        /\ err.parts = {"missing", "expected", "found"}
        /\ err.expected = REQUIRED_COLUMNS
        /\ err.found = src.cols
        /\ Range(err.missing) = AbsentRequired
        /\ df = EmptyFrame
        /\ ~cache.full

\* the loaded cell that a raw cell of a numeric or date column must become
Degraded(c) == IF c.tag = "bad" THEN NA ELSE c

\* C3: a file with all required columns always loads; a malformed numeric
\* or date cell becomes the missing marker and its row is retained with
\* its other fields.
C3_MalformedCellsLoad ==
    (pc # "start" /\ src.state = "ok" /\ AbsentRequired = {}) =>
        /\ pc = "loaded"
        /\ Len(df.rows) = Len(src.rows)
        /\ \A i \in 1..Len(src.rows) :
               /\ df.rows[i].units = Degraded(src.rows[i].units)
               /\ df.rows[i].unit_price = Degraded(src.rows[i].unit_price)
               /\ df.rows[i].revenue = Degraded(src.rows[i].revenue)
               /\ df.rows[i].date.tag = Degraded(src.rows[i].date).tag
               /\ df.rows[i].region = src.rows[i].region

\* the category texts of the rows of a table whose cell in the file is
\* not missing
PresentCategories(frame) ==
    {strip(src.rows[r.idx + 1].category.s) :
        r \in {x \in Range(frame.rows) : src.rows[x.idx + 1].category.tag = "val"}}

\* C4: n_categories is the number of distinct non-missing category values;
\* a row whose category cell is missing in the file adds nothing.
C4_DistinctNonMissingCategories ==
    pc \in {"kpis done", "bar done", "line done"} =>
        kpi.n_categories = Cardinality(PresentCategories(fdf))

\* first row of a table that holds a category
FirstRow(frame, key) ==
    CHOOSE i \in 1..Len(frame.rows) :
        /\ frame.rows[i].category = key
        /\ \A j \in 1..(i - 1) : frame.rows[j].category # key

\* revenue of a table's rows of one category, missing cells counting zero
CategoryRevenue(frame, key) ==
    SeqSum([i \in 1..Len(frame.rows) |->
               IF frame.rows[i].category = key /\ frame.rows[i].revenue.tag = "val"
               THEN frame.rows[i].revenue.v ELSE 0])

\* one entry per distinct category of the table, each with its revenue sum
C5_EntriesAreCategorySums ==
    LET g == fig_bar.data
    IN  /\ {g[i].key : i \in 1..Len(g)} = Range(Column(fdf, "category"))
        /\ Len(g) = Cardinality(Range(Column(fdf, "category")))
        /\ \A i \in 1..Len(g) : g[i].revenue = CategoryRevenue(fdf, g[i].key)

\* C5 as claimed: one entry per category with its revenue sum, in
\* descending order of the sum, equal sums in order of first appearance.
C5_TiesByFirstAppearance ==
    (pc \in {"bar done", "line done"} /\ fig_bar.kind = "bar") =>
        LET g == fig_bar.data
        IN  /\ C5_EntriesAreCategorySums
            /\ \A i \in 1..(Len(g) - 1) :
                   \/ g[i].revenue > g[i + 1].revenue
                   \/ /\ g[i].revenue = g[i + 1].revenue
                      /\ FirstRow(fdf, g[i].key) < FirstRow(fdf, g[i + 1].key)

\* C5 amended: one entry per category (the missing category its own
\* bucket) with its revenue sum, in descending order of the sum; the order
\* of equal sums is not fixed.
C5_DescendingCategorySums ==
    (pc \in {"bar done", "line done"} /\ fig_bar.kind = "bar") =>
        LET g == fig_bar.data
        IN  /\ C5_EntriesAreCategorySums
            /\ \A i \in 1..(Len(g) - 1) : g[i].revenue >= g[i + 1].revenue

\* C5 witness: a grouping of two categories of different sums, one of them
\* the bucket of the missing category.
C5_Witness ==
    /\ pc = "bar done"
    /\ Len(fig_bar.data) = 2
    /\ fig_bar.data[1].revenue > fig_bar.data[2].revenue
    /\ \E r \in Range(fdf.rows) : src.rows[r.idx + 1].category.tag = "na"

\* exact sum of the non-missing revenue cells, in 1/Scale units
ExactRevenue(frame) ==
    SeqSum([i \in 1..Len(frame.rows) |->
               IF frame.rows[i].revenue.tag = "val" THEN frame.rows[i].revenue.v ELSE 0])

Abs(n) == IF n < 0 THEN -n ELSE n

\* C6 as claimed: total_revenue is the exact sum rounded to the nearest
\* integer, at most one half away from it.
C6_RoundedToNearest ==
    pc \in {"kpis done", "bar done", "line done"} =>
        2 * Abs(Scale * kpi.total_revenue - ExactRevenue(fdf)) <= Scale

\* C6 amended: total_revenue is the exact sum of the non-missing revenue
\* values truncated toward zero, less than one away from it.
C6_TruncatedTowardZero ==
    pc \in {"kpis done", "bar done", "line done"} =>
        LET exact == ExactRevenue(fdf)
            t == kpi.total_revenue
        IN  /\ Scale * Abs(t) <= Abs(exact)
            /\ Abs(exact) < Scale * Abs(t) + Scale
            /\ (exact >= 0 => t >= 0)
            /\ (exact <= 0 => t <= 0)

\* C6 witness: a negative fractional total over a table that also holds a
\* missing revenue cell.
C6_Witness ==
    /\ pc = "kpis done"
    /\ ExactRevenue(fdf) < 0
    /\ ExactRevenue(fdf) % Scale # 0
    /\ \E r \in Range(fdf.rows) : r.revenue.tag = "na"

\* position of a name in REQUIRED_COLUMNS
RequiredIndex(c) == CHOOSE i \in 1..Len(REQUIRED_COLUMNS) : REQUIRED_COLUMNS[i] = c

\* C7: _check_required_columns returns exactly the required names that
\* are not columns of the table, in REQUIRED_COLUMNS order, and ok is true
\* exactly when that list is empty.
C7_MissingInRequiredOrder ==
    chk # NoCheck =>
        /\ Range(chk.missing) = AbsentRequired
        /\ Len(chk.missing) = Cardinality(AbsentRequired)
        /\ \A i \in 1..(Len(chk.missing) - 1) :
               RequiredIndex(chk.missing[i]) < RequiredIndex(chk.missing[i + 1])
        /\ chk.ok = (chk.missing = <<>>)
        /\ \A i \in 1..Len(chk.missing) : ~Contains(src.cols, chk.missing[i])

\* C7 witness: a reversed header with an extra column lacks two required
\* columns.
C7_Witness ==
    /\ chk # NoCheck
    /\ Len(chk.missing) = 2
    /\ Len(src.cols) > 2
    /\ \E i \in 1..Len(src.cols) : ~Contains(REQUIRED_COLUMNS, src.cols[i])
    /\ \E i, j \in 1..Len(src.cols) :
           /\ i < j
           /\ Contains(REQUIRED_COLUMNS, src.cols[i])
           /\ Contains(REQUIRED_COLUMNS, src.cols[j])
           /\ RequiredIndex(src.cols[i]) > RequiredIndex(src.cols[j])

ZeroKpi == [total_revenue |-> 0, total_units |-> 0, n_categories |-> 0]

Matched ==
    SelectSeq(df.rows, LAMBDA r :
        /\ r.date.tag = "val" /\ dr.start.tag = "val" /\ dr.end.tag = "val"
        /\ dr.start.v <= r.date.v /\ r.date.v <= dr.end.v)

ErrorShown == ui \cap {"error_not_found", "error_validation", "error_unexpected"} # {}

FilteredOutputs == {"kpi_metrics", "bar_chart", "bar_info", "line_chart", "line_info",
                    "filtered_preview", "filtered_download"}

UnitsOf(rows) ==
    SeqSum([i \in 1..Len(rows) |-> IF rows[i].units.tag = "val" THEN rows[i].units.v ELSE 0])

\* C9: after a successful load, a range that matches no row ends the run
\* in the empty-result state: the no-data warning and the unfiltered table
\* (preview and download) are shown, no error is shown, and no KPI, chart
\* or filtered export is produced; a range that matches rows ends with the
\* KPIs, both charts and the export, all of the matched rows.
C9_EmptyResultState ==
    /\ pc \in {"kpis", "bar", "line", "preview", "export", "done"} =>
           /\ Matched # <<>>
           /\ fdf.rows = Matched
           /\ "warning_no_data" \notin ui
    /\ (pc \in {"filtered", "stopped"} /\ ~ErrorShown /\ Matched = <<>>) =>
           /\ kpi = NoKpi /\ fig_bar = NotBuilt /\ fig_line = NotBuilt
           /\ ui \cap FilteredOutputs = {}
    /\ (pc = "stopped" /\ ~ErrorShown) =>
           /\ Matched = <<>>
           /\ {"warning_no_data", "original_preview", "original_download"} \subseteq ui
           /\ preview.rows = df.rows
           /\ csv.columns = df.columns
           /\ Len(csv.rows) = Len(df.rows)
           /\ \A i \in 1..Len(df.rows) : csv.rows[i].date = df.rows[i].date
    /\ pc = "done" =>
           /\ kpi.total_units = UnitsOf(Matched)
           /\ fig_bar.kind = "bar"
           /\ {e.key : e \in Range(fig_bar.data)} = {r.category : r \in Range(Matched)}
           /\ fig_line.kind = "line"
           /\ {e.key : e \in Range(fig_line.data)} = {r.date : r \in Range(Matched)}
           /\ {"kpi_metrics", "bar_chart", "line_chart", "filtered_preview",
               "filtered_download"} \subseteq ui
           /\ Len(csv.rows) = Len(Matched)
           /\ \A i \in 1..Len(Matched) : csv.rows[i].revenue = Matched[i].revenue

\* C9 witness: a run on a table with dated rows ends in the empty-result
\* state because the selected range lies between the dates.
C9_Witness ==
    /\ pc = "stopped"
    /\ "warning_no_data" \in ui
    /\ dr.start.tag = "val"
    /\ Len(df.rows) >= 2
    /\ fdf.rows = <<>>

\* a run that holds the loaded table
HoldsLoadedTable ==
    cache.full /\ pc \in {"loaded", "picked", "ranged", "filtered", "kpis", "bar",
                          "line", "preview", "export", "done", "stopped", "crashed"}

\* C10: after every step of a run the loaded table has the rows, the row
\* order and the cell values it had when load_data returned it.
C10_LoadedTableUnchanged ==
    HoldsLoadedTable =>
        /\ df = cache.df
        /\ Len(df.rows) = Len(src.rows)
        /\ \A i \in 1..Len(df.rows) : df.rows[i].idx = i - 1

\* C10 witness: a run has ended after a filter that dropped rows
\* and a preview that reordered the filtered view.
C10_Witness ==
    /\ pc = "done"
    /\ Len(fdf.rows) < Len(df.rows)
    /\ \E i \in 1..Len(fdf.rows) : preview.rows[i].date # fdf.rows[i].date

====
